---- MODULE Spec2Model ----
(***************************************************************************)
(* Model of the batch downloader of idevbao/ytb:                           *)
(*   src/src/downloader.rs  Downloader::{new, process_urls, download_video,*)
(*                          process_download, cleanup_temp_files},         *)
(*                          DownloadGuard, FileNames                       *)
(*   src/src/progress.rs    DownloadProgress::{new, update, record_failure,*)
(*                          export_failures}                               *)
(* One task per url is created lazily by buffer_unordered(10); each task   *)
(* is a sequence of steps separated at its await points and at the         *)
(* statements of the aggregator's critical section.  Steps of different    *)
(* tasks interleave freely, which includes every order in which the        *)
(* executor can poll the futures.  The tokio Semaphore hands a released    *)
(* permit to the longest-waiting task (FIFO).                              *)
(***************************************************************************)
EXTENDS Integers, Sequences, FiniteSets, TLC

\* ---- bounds of the model ------------------------------------------------
MaxItems == 2
MaxLimit == 2

\* ---- program constants --------------------------------------------------
BufferSize == 10

\* The urls a batch is drawn from.
Urls == {"youtu.be/a", "youtu.be/b"}

\* Fetcher::fetch_video_infos resolves a url to the id of the remote video.
VideoIdOf(url) == IF url = "youtu.be/a" THEN "a" ELSE "b"

VideoTitle == "t"
OutputDir == "output"

NoVideo == [id |-> "", title |-> "", audio |-> FALSE, video |-> FALSE]
NoNames == [audio |-> "", video |-> "", name |-> ""]

\* output/failed.txt before anything created it
NoFile == [exists |-> FALSE, lines |-> <<>>]

\* values of chrono::Local::now().format("%Y-%m-%d %H:%M:%S") during the
\* run (calls within one second print the same value), and the value an
\* earlier run printed
Timestamps == {"2026-01-01 10:00:00"}

PriorTimestamp == "2026-01-01 09:00:00"
MainId == 99

VARIABLES
    concurrent_downloads, \* Config.concurrent_downloads
    urls,                 \* the batch handed to process_urls
    permits,              \* free permits of Downloader.semaphore
    waiters,              \* FIFO queue of tasks suspended in sem.acquire()
    active_downloads,     \* Downloader.active_downloads
    pc,                   \* position of every task's future
    result,               \* result of download_video per task
    video,                \* metadata resolved per task
    filenames,            \* FileNames per task
    files,                \* paths that exist in the output directory
    delAttempts,          \* remove_file calls per task and temporary file
    progress,             \* the DownloadProgress behind the Mutex
    lockHolder,           \* owner of the progress Mutex (0: free)
    updates,              \* calls of DownloadProgress::update per task
    mainPc,               \* position of process_urls itself
    exportResult,         \* result of export_failures
    failedTxt,            \* output/failed.txt: whether it exists, its lines
    ret,                  \* return value of process_urls
    steps,                \* steps of download_video each task has reached
    io                    \* lines each task body has printed (stdout / stderr)

vars == <<concurrent_downloads, urls, permits, waiters, active_downloads, pc,
          result, video, filenames, files, delAttempts, progress, lockHolder,
          updates, mainPc, exportResult, failedTxt, ret, steps, io>>

Tasks == 1..Len(urls)

RECURSIVE SeqsUpTo(_)
SeqsUpTo(n) ==
    IF n = 0 THEN {<<>>}
    ELSE LET shorter == SeqsUpTo(n - 1)
         IN shorter \cup {Append(s, u) : s \in {t \in shorter : Len(t) = n - 1}, u \in Urls}

\* ---- src/src/progress.rs -------------------------------------------------
DownloadProgress_new(total_videos) ==
    [total_videos |-> total_videos, completed |-> 0, errors |-> 0,
     failed_urls |-> <<>>]

\* variant of update that counts a failed job only in errors
DownloadProgress_update_ErrorsOnly(p, success) ==
    IF success THEN [p EXCEPT !.completed = p.completed + 1]
    ELSE [p EXCEPT !.errors = p.errors + 1]

DownloadProgress_update(p, success) ==
    [p EXCEPT !.completed = p.completed + 1,
              !.errors = IF success THEN p.errors ELSE p.errors + 1]

\* remaining_videos of print_progress (usize subtraction)
RemainingVideos(p) == p.total_videos - p.completed

\* variant of record_failure that keeps only the latest failure
DownloadProgress_record_failure_KeepLast(p, url, error) ==
    [p EXCEPT !.failed_urls = <<<<url, error>>>>]

DownloadProgress_record_failure(p, url, error) ==
    [p EXCEPT !.failed_urls = Append(p.failed_urls, <<url, error>>)]

\* lines written for the (url, error) pairs of failed_urls
RECURSIVE FailureBlocks(_)
FailureBlocks(failed_urls) ==
    IF failed_urls = <<>> THEN <<>>
    ELSE <<"URL: " \o Head(failed_urls)[1],
           "Error: " \o Head(failed_urls)[2],
           "---">> \o FailureBlocks(Tail(failed_urls))

\* "\n=== Failed Downloads Report {} ===": an empty line, then the header
ReportHeader(ts) == "=== Failed Downloads Report " \o ts \o " ==="

ReportSection(failed_urls, ts) ==
    <<"", ReportHeader(ts)>> \o FailureBlocks(failed_urls)

\* numbers of lines of a section of n lines that reached the file when a
\* write or the flush failed: none, or all but the last
PartialWrites(n) == {0, n - 1}

\* variant of export_failures without the is_empty() early return
export_failures_NoEmptyCheck(sink, failed_urls) ==
    {<<"Err", sink>>}
    \cup {<<"Ok", [exists |-> TRUE,
                   lines |-> sink.lines \o ReportSection(failed_urls, ts)]>> :
             ts \in Timestamps}

\* variant of export_failures that opens (creates) the file before it looks
\* at the list
export_failures_OpenFirst(sink, failed_urls) ==
    IF failed_urls = <<>>
    THEN {<<"Ok", [exists |-> TRUE, lines |-> sink.lines]>>}
    ELSE {<<"Err", sink>>}
         \cup {<<"Ok", [exists |-> TRUE,
                        lines |-> sink.lines \o ReportSection(failed_urls, ts)]>> :
                  ts \in Timestamps}

\* variant of export_failures that opens the file with truncate instead of
\* append
export_failures_Truncate(sink, failed_urls) ==
    IF failed_urls = <<>>
    THEN {<<"Ok", sink>>}
    ELSE {<<"Err", sink>>}
         \cup {<<"Ok", [exists |-> TRUE,
                        lines |-> ReportSection(failed_urls, ts)]>> :
                  ts \in Timestamps}

\* export_failures on the sink: the set of <<result, sink afterwards>>.
\* Ok(()) without touching the sink for an empty list; otherwise the open
\* (create + append) can fail, a write or the flush can fail after part of
\* the section reached the file, or the whole section is appended.
export_failures(sink, failed_urls) ==
    IF failed_urls = <<>>
    THEN {<<"Ok", sink>>}
    ELSE {<<"Err", sink>>}
         \cup {<<"Err", [exists |-> TRUE,
                         lines |-> sink.lines \o SubSeq(ReportSection(failed_urls, ts), 1, k)]>> :
                  ts \in Timestamps,
                  k \in PartialWrites(Len(FailureBlocks(failed_urls)) + 2)}
         \cup {<<"Ok", [exists |-> TRUE,
                        lines |-> sink.lines \o ReportSection(failed_urls, ts)]>> :
                  ts \in Timestamps}

\* ---- src/src/downloader.rs ----------------------------------------------
DownloadGuard_new(counter) == counter + 1

DownloadGuard_drop(counter) == counter - 1

MakeFileNames(index, v) ==
    [audio |-> "audio_" \o v.id \o ".mp3",
     video |-> "video_" \o v.id \o ".mp4",
     name  |-> ToString(index) \o "_" \o v.id \o "_" \o v.title \o ".mp4"]

\* path the Fetcher writes a file of the given name to
OutputPath(name) == OutputDir \o "/" \o name

\* path cleanup_temp_files removes
CleanupPath(name) == "output/" \o name

\* std::fs::remove_file(path): the set of <<result, directory afterwards>>.
\* A path that does not exist gives Err (NotFound); an existing file is
\* removed, or the call fails (permissions, file in use) and leaves it.
remove_file(fs, path) ==
    IF path \in fs
    THEN {<<"Ok", fs \ {path}>>, <<"Err", fs>>}
    ELSE {<<"Err", fs>>}

InFlight == {i \in Tasks : pc[i] \notin {"idle", "done"}}

\* tasks that passed sem.acquire() and have not finished their body
Admitted == {i \in Tasks : pc[i] \notin {"idle", "waiting", "done"}}

\* Downloader::new with the given limit, then the start of process_urls on
\* the given batch, with output/failed.txt as the given sink
Start(limit, batch, sink) ==
    /\ concurrent_downloads = limit
    /\ urls = batch
    /\ permits = concurrent_downloads
    /\ waiters = <<>>
    /\ active_downloads = 0
    /\ pc = [i \in Tasks |-> "idle"]
    /\ result = [i \in Tasks |-> "none"]
    /\ video = [i \in Tasks |-> NoVideo]
    /\ filenames = [i \in Tasks |-> NoNames]
    /\ files = {}
    /\ delAttempts = [i \in Tasks |-> [audio |-> 0, video |-> 0]]
    /\ progress = DownloadProgress_new(Len(urls))
    /\ lockHolder = 0
    /\ updates = [i \in Tasks |-> 0]
    /\ mainPc = "collect"
    /\ exportResult = "none"
    /\ failedTxt = sink
    /\ ret = "none"
    /\ steps = [i \in Tasks |-> <<>>]
    /\ io = [i \in Tasks |-> <<>>]

Init ==
    \E limit \in 1..MaxLimit, batch \in SeqsUpTo(MaxItems) :
        Start(limit, batch, NoFile)

\* variant of Spawn whose task starts without waiting for a permit
Spawn_NoSemaphore(i) ==
    /\ mainPc = "collect"
    /\ pc[i] = "idle"
    /\ \A j \in Tasks : j < i => pc[j] # "idle"
    /\ Cardinality(InFlight) < BufferSize
    /\ permits' = IF permits > 0 THEN permits - 1 ELSE permits
    /\ pc' = [pc EXCEPT ![i] = "admitted"]
    /\ UNCHANGED <<concurrent_downloads, urls, waiters, active_downloads,
                   result, video, filenames, files, delAttempts, progress,
                   lockHolder, updates, mainPc, exportResult, failedTxt, ret>>
    /\ UNCHANGED <<steps, io>>

\* buffer_unordered pulls the next future and polls it: sem.acquire()
Spawn(i) ==
    /\ mainPc = "collect"
    /\ pc[i] = "idle"
    /\ \A j \in Tasks : j < i => pc[j] # "idle"
    /\ Cardinality(InFlight) < BufferSize
    /\ IF permits > 0
       THEN /\ permits' = permits - 1
            /\ pc' = [pc EXCEPT ![i] = "admitted"]
            /\ UNCHANGED waiters
       ELSE /\ waiters' = Append(waiters, i)
            /\ pc' = [pc EXCEPT ![i] = "waiting"]
            /\ UNCHANGED permits
    /\ UNCHANGED <<concurrent_downloads, urls, active_downloads, result, video,
                   filenames, files, delAttempts, progress, lockHolder,
                   updates, mainPc, exportResult, failedTxt, ret>>
    /\ UNCHANGED <<steps, io>>

\* variant of EnterDownload whose guard is dropped at once (`let _ = ...`)
EnterDownload_GuardDroppedAtOnce(i) ==
    /\ pc[i] = "admitted"
    /\ active_downloads' = DownloadGuard_drop(DownloadGuard_new(active_downloads))
    /\ pc' = [pc EXCEPT ![i] = "info"]
    /\ UNCHANGED <<concurrent_downloads, urls, permits, waiters, result, video,
                   filenames, files, delAttempts, progress, lockHolder,
                   updates, mainPc, exportResult, failedTxt, ret>>
    /\ io' = [io EXCEPT ![i] = Append(@, "starting")]
    /\ UNCHANGED steps

\* download_video entry: DownloadGuard::new, then await fetch_video_infos
EnterDownload(i) ==
    /\ pc[i] = "admitted"
    /\ active_downloads' = DownloadGuard_new(active_downloads)
    /\ pc' = [pc EXCEPT ![i] = "info"]
    /\ UNCHANGED <<concurrent_downloads, urls, permits, waiters, result, video,
                   filenames, files, delAttempts, progress, lockHolder,
                   updates, mainPc, exportResult, failedTxt, ret>>
    /\ io' = [io EXCEPT ![i] = Append(@, "starting")]
    /\ UNCHANGED steps

\* variant of FailDownload in which the error path skips the decrement
FailDownload_NoGuard(i, msg) ==
    /\ active_downloads' = active_downloads
    /\ video' = [video EXCEPT ![i] = NoVideo]
    /\ filenames' = [filenames EXCEPT ![i] = NoNames]
    /\ result' = [result EXCEPT ![i] = msg]
    /\ pc' = [pc EXCEPT ![i] = "lock"]

\* download_video returns Err(msg) through `?`: its locals (video,
\* filenames) and the guard are dropped
FailDownload(i, msg) ==
    /\ active_downloads' = DownloadGuard_drop(active_downloads)
    /\ video' = [video EXCEPT ![i] = NoVideo]
    /\ filenames' = [filenames EXCEPT ![i] = NoNames]
    /\ result' = [result EXCEPT ![i] = msg]
    /\ pc' = [pc EXCEPT ![i] = "lock"]

\* fetch_video_infos(url) completes
FetchInfo(i) ==
    /\ pc[i] = "info"
    /\ \/ FailDownload(i, "video info error")
       \/ \E a \in BOOLEAN, v \in BOOLEAN :
            LET vid == [id |-> VideoIdOf(urls[i]), title |-> VideoTitle,
                        audio |-> a, video |-> v]
            IN /\ video' = [video EXCEPT ![i] = vid]
               /\ filenames' = [filenames EXCEPT ![i] = MakeFileNames(i, vid)]
               /\ pc' = [pc EXCEPT ![i] = "audio"]
               /\ UNCHANGED <<active_downloads, result>>
    /\ UNCHANGED <<concurrent_downloads, urls, permits, waiters, files,
                   delAttempts, progress, lockHolder, updates, mainPc,
                   exportResult, failedTxt, ret>>
    /\ steps' = [steps EXCEPT ![i] = Append(@, "info")]
    /\ UNCHANGED io

\* variant of DownloadAudio that notes the error but goes on to the video
DownloadAudio_GoesOn(i) ==
    /\ pc[i] = "audio"
    /\ IF video[i].audio
       THEN \/ /\ files' = files \cup {OutputPath(filenames[i].audio)}
               /\ UNCHANGED result
            \/ /\ result' = [result EXCEPT ![i] = "audio download error"]
               /\ UNCHANGED files
       ELSE UNCHANGED <<result, files>>
    /\ pc' = [pc EXCEPT ![i] = "video"]
    /\ UNCHANGED <<concurrent_downloads, urls, permits, waiters, delAttempts,
                   progress, lockHolder, updates, mainPc, exportResult,
                   failedTxt, ret, active_downloads, video, filenames>>
    /\ steps' = [steps EXCEPT ![i] = Append(@, "audio")]
    /\ UNCHANGED io

\* process_download: best_audio_format / download_format(audio)
DownloadAudio(i) ==
    /\ pc[i] = "audio"
    /\ IF video[i].audio
       THEN \/ /\ files' = files \cup {OutputPath(filenames[i].audio)}
               /\ pc' = [pc EXCEPT ![i] = "video"]
               /\ UNCHANGED <<active_downloads, result, video, filenames>>
            \/ /\ FailDownload(i, "audio download error")
               /\ UNCHANGED files
       ELSE /\ pc' = [pc EXCEPT ![i] = "video"]
            /\ UNCHANGED <<active_downloads, result, files, video, filenames>>
    /\ UNCHANGED <<concurrent_downloads, urls, permits, waiters, delAttempts,
                   progress, lockHolder, updates, mainPc, exportResult,
                   failedTxt, ret>>
    /\ steps' = [steps EXCEPT ![i] = Append(@, "audio")]
    /\ UNCHANGED io

\* variant of DownloadVideo that treats a missing video format as an error
DownloadVideo_RequiresFormat(i) ==
    /\ pc[i] = "video"
    /\ IF video[i].video
       THEN \/ /\ files' = files \cup {OutputPath(filenames[i].video)}
               /\ pc' = [pc EXCEPT ![i] = "combine"]
               /\ UNCHANGED <<active_downloads, result, video, filenames>>
            \/ /\ FailDownload(i, "video download error")
               /\ UNCHANGED files
       ELSE /\ FailDownload(i, "video download error")
            /\ UNCHANGED files
    /\ UNCHANGED <<concurrent_downloads, urls, permits, waiters, delAttempts,
                   progress, lockHolder, updates, mainPc, exportResult,
                   failedTxt, ret>>
    /\ steps' = [steps EXCEPT ![i] = Append(@, "video")]
    /\ UNCHANGED io

\* process_download: best_video_format / download_format(video)
DownloadVideo(i) ==
    /\ pc[i] = "video"
    /\ IF video[i].video
       THEN \/ /\ files' = files \cup {OutputPath(filenames[i].video)}
               /\ pc' = [pc EXCEPT ![i] = "combine"]
               /\ UNCHANGED <<active_downloads, result, video, filenames>>
            \/ /\ FailDownload(i, "video download error")
               /\ UNCHANGED files
       ELSE /\ pc' = [pc EXCEPT ![i] = "combine"]
            /\ UNCHANGED <<active_downloads, result, files, video, filenames>>
    /\ UNCHANGED <<concurrent_downloads, urls, permits, waiters, delAttempts,
                   progress, lockHolder, updates, mainPc, exportResult,
                   failedTxt, ret>>
    /\ steps' = [steps EXCEPT ![i] = Append(@, "video")]
    /\ UNCHANGED io

\* process_download: combine_audio_and_video
Combine(i) ==
    /\ pc[i] = "combine"
    /\ \/ /\ files' = files \cup {OutputPath(filenames[i].name)}
          /\ pc' = [pc EXCEPT ![i] = "cleanup"]
          /\ UNCHANGED <<active_downloads, result, video, filenames>>
       \/ /\ FailDownload(i, "combine error")
          /\ UNCHANGED files
    /\ UNCHANGED <<concurrent_downloads, urls, permits, waiters, delAttempts,
                   progress, lockHolder, updates, mainPc, exportResult,
                   failedTxt, ret>>
    /\ steps' = [steps EXCEPT ![i] = Append(@, "combine")]
    /\ UNCHANGED io

\* variant of cleanup_temp_files that returns the deletion error with `?`
CleanupTempFiles_Propagates(i) ==
    /\ pc[i] = "cleanup"
    /\ \E a \in remove_file(files, CleanupPath(filenames[i].audio)) :
       \E v \in remove_file(a[2], CleanupPath(filenames[i].video)) :
          /\ files' = v[2]
          /\ result' = [result EXCEPT ![i] =
                          IF "Err" \in {a[1], v[1]} THEN "cleanup error" ELSE "ok"]
    /\ delAttempts' = [delAttempts EXCEPT ![i] =
                         [audio |-> @.audio + 1, video |-> @.video + 1]]
    /\ active_downloads' = DownloadGuard_drop(active_downloads)
    /\ video' = [video EXCEPT ![i] = NoVideo]
    /\ filenames' = [filenames EXCEPT ![i] = NoNames]
    /\ pc' = [pc EXCEPT ![i] = "lock"]
    /\ UNCHANGED <<concurrent_downloads, urls, permits, waiters, progress,
                   lockHolder, updates, mainPc, exportResult, failedTxt, ret>>
    /\ steps' = [steps EXCEPT ![i] = Append(@, "cleanup")]
    /\ UNCHANGED io

\* cleanup_temp_files, then download_video returns Ok(()) and drops its
\* locals and the guard
CleanupTempFiles(i) ==
    /\ pc[i] = "cleanup"
    /\ \E a \in remove_file(files, CleanupPath(filenames[i].audio)) :
       \E v \in remove_file(a[2], CleanupPath(filenames[i].video)) :
          /\ files' = v[2]
    /\ delAttempts' = [delAttempts EXCEPT ![i] =
                         [audio |-> @.audio + 1, video |-> @.video + 1]]
    /\ active_downloads' = DownloadGuard_drop(active_downloads)
    /\ video' = [video EXCEPT ![i] = NoVideo]
    /\ filenames' = [filenames EXCEPT ![i] = NoNames]
    /\ result' = [result EXCEPT ![i] = "ok"]
    /\ pc' = [pc EXCEPT ![i] = "lock"]
    /\ UNCHANGED <<concurrent_downloads, urls, permits, waiters, progress,
                   lockHolder, updates, mainPc, exportResult, failedTxt, ret>>
    /\ steps' = [steps EXCEPT ![i] = Append(@, "cleanup")]
    /\ UNCHANGED io

\* variant of Lock in which the permit is released before the report
Lock_ReleasesPermit(i) ==
    /\ pc[i] = "lock"
    /\ lockHolder = 0
    /\ lockHolder' = i
    /\ permits' = permits + 1
    /\ pc' = [pc EXCEPT ![i] = "report"]
    /\ UNCHANGED <<concurrent_downloads, urls, waiters,
                   active_downloads, result, video, filenames, files,
                   delAttempts, progress, updates, mainPc, exportResult,
                   failedTxt, ret>>
    /\ UNCHANGED <<steps, io>>

\* variant of Lock that enters the critical section without exclusion
Lock_NoExclusion(i) ==
    /\ pc[i] = "lock"
    /\ lockHolder' = i
    /\ pc' = [pc EXCEPT ![i] = "report"]
    /\ UNCHANGED <<concurrent_downloads, urls, permits, waiters,
                   active_downloads, result, video, filenames, files,
                   delAttempts, progress, updates, mainPc, exportResult,
                   failedTxt, ret>>
    /\ UNCHANGED <<steps, io>>

\* progress.lock().await
Lock(i) ==
    /\ pc[i] = "lock"
    /\ lockHolder = 0
    /\ lockHolder' = i
    /\ pc' = [pc EXCEPT ![i] = "report"]
    /\ UNCHANGED <<concurrent_downloads, urls, permits, waiters,
                   active_downloads, result, video, filenames, files,
                   delAttempts, progress, updates, mainPc, exportResult,
                   failedTxt, ret>>
    /\ UNCHANGED <<steps, io>>

\* variant of Report whose Err arm also calls update
Report_UpdatesOnError(i) ==
    /\ pc[i] = "report"
    /\ IF result[i] = "ok"
       THEN UNCHANGED <<progress, updates>>
       ELSE /\ progress' = DownloadProgress_update(
                   DownloadProgress_record_failure(progress, urls[i], result[i]),
                   FALSE)
            /\ updates' = [updates EXCEPT ![i] = @ + 1]
    /\ pc' = [pc EXCEPT ![i] = "update"]
    /\ UNCHANGED <<concurrent_downloads, urls, permits, waiters,
                   active_downloads, result, video, filenames, files,
                   delAttempts, lockHolder, mainPc, exportResult, failedTxt,
                   ret>>
    /\ io' = [io EXCEPT ![i] =
                 Append(@, IF result[i] = "ok" THEN "completed" ELSE "failed")]
    /\ UNCHANGED steps

\* match result: Ok => println, Err(e) => eprintln + record_failure
Report(i) ==
    /\ pc[i] = "report"
    /\ progress' = IF result[i] = "ok" THEN progress
                   ELSE DownloadProgress_record_failure(progress, urls[i], result[i])
    /\ pc' = [pc EXCEPT ![i] = "update"]
    /\ UNCHANGED <<concurrent_downloads, urls, permits, waiters,
                   active_downloads, result, video, filenames, files,
                   delAttempts, lockHolder, updates, mainPc, exportResult,
                   failedTxt, ret>>
    /\ io' = [io EXCEPT ![i] =
                 Append(@, IF result[i] = "ok" THEN "completed" ELSE "failed")]
    /\ UNCHANGED steps

\* progress_guard.update(success)
Update(i) ==
    /\ pc[i] = "update"
    /\ progress' = DownloadProgress_update(progress, result[i] = "ok")
    /\ updates' = [updates EXCEPT ![i] = @ + 1]
    /\ pc' = [pc EXCEPT ![i] = "unlock"]
    /\ UNCHANGED <<concurrent_downloads, urls, permits, waiters,
                   active_downloads, result, video, filenames, files,
                   delAttempts, lockHolder, mainPc, exportResult, failedTxt,
                   ret>>
    /\ io' = [io EXCEPT ![i] = Append(@, "progress")]
    /\ UNCHANGED steps

\* variant of Finish that wakes the next waiter and also adds a permit
Finish_ReleasesTwice(i) ==
    /\ pc[i] = "unlock"
    /\ lockHolder' = 0
    /\ IF waiters # <<>>
       THEN /\ pc' = [pc EXCEPT ![i] = "done", ![Head(waiters)] = "admitted"]
            /\ waiters' = Tail(waiters)
            /\ permits' = permits + 1
       ELSE /\ pc' = [pc EXCEPT ![i] = "done"]
            /\ permits' = permits + 1
            /\ UNCHANGED waiters
    /\ UNCHANGED <<concurrent_downloads, urls, active_downloads, result, video,
                   filenames, files, delAttempts, progress, updates, mainPc,
                   exportResult, failedTxt, ret>>
    /\ UNCHANGED <<steps, io>>

\* variant of Finish in which progress_guard is leaked and the Mutex stays
\* locked
Finish_KeepsLock(i) ==
    /\ pc[i] = "unlock"
    /\ IF waiters # <<>>
       THEN /\ pc' = [pc EXCEPT ![i] = "done", ![Head(waiters)] = "admitted"]
            /\ waiters' = Tail(waiters)
            /\ UNCHANGED permits
       ELSE /\ pc' = [pc EXCEPT ![i] = "done"]
            /\ permits' = permits + 1
            /\ UNCHANGED waiters
    /\ UNCHANGED <<concurrent_downloads, urls, active_downloads, result, video,
                   filenames, files, delAttempts, progress, updates, mainPc,
                   exportResult, failedTxt, ret, lockHolder>>
    /\ UNCHANGED <<steps, io>>

\* variant of Finish in which the permit is leaked (mem::forget)
Finish_LeaksPermit(i) ==
    /\ pc[i] = "unlock"
    /\ lockHolder' = 0
    /\ pc' = [pc EXCEPT ![i] = "done"]
    /\ UNCHANGED <<concurrent_downloads, urls, permits, waiters,
                   active_downloads, result, video, filenames, files,
                   delAttempts, progress, updates, mainPc, exportResult,
                   failedTxt, ret>>
    /\ UNCHANGED <<steps, io>>

\* end of the async block: progress_guard is dropped, then _permit
Finish(i) ==
    /\ pc[i] = "unlock"
    /\ lockHolder' = 0
    /\ IF waiters # <<>>
       THEN /\ pc' = [pc EXCEPT ![i] = "done", ![Head(waiters)] = "admitted"]
            /\ waiters' = Tail(waiters)
            /\ UNCHANGED permits
       ELSE /\ pc' = [pc EXCEPT ![i] = "done"]
            /\ permits' = permits + 1
            /\ UNCHANGED waiters
    /\ UNCHANGED <<concurrent_downloads, urls, active_downloads, result, video,
                   filenames, files, delAttempts, progress, updates, mainPc,
                   exportResult, failedTxt, ret>>
    /\ UNCHANGED <<steps, io>>

\* variant of Collect that resolves as soon as one task has finished
Collect_FirstDone ==
    /\ mainPc = "collect"
    /\ \/ Tasks = {}
       \/ \E i \in Tasks : pc[i] = "done"
    /\ mainPc' = "summary"
    /\ UNCHANGED <<concurrent_downloads, urls, permits, waiters,
                   active_downloads, pc, result, video, filenames, files,
                   delAttempts, progress, lockHolder, updates, exportResult,
                   failedTxt, ret>>
    /\ UNCHANGED <<steps, io>>

\* variant of Collect that stops at the first failed task (try_collect)
Collect_StopOnError ==
    /\ mainPc = "collect"
    /\ \/ \A i \in Tasks : pc[i] = "done"
       \/ \E i \in Tasks : pc[i] = "done" /\ result[i] # "ok"
    /\ mainPc' = "summary"
    /\ UNCHANGED <<concurrent_downloads, urls, permits, waiters,
                   active_downloads, pc, result, video, filenames, files,
                   delAttempts, progress, lockHolder, updates, exportResult,
                   failedTxt, ret>>
    /\ UNCHANGED <<steps, io>>

\* download_tasks.collect().await resolves once the stream is exhausted
Collect ==
    /\ mainPc = "collect"
    /\ \A i \in Tasks : pc[i] = "done"
    /\ mainPc' = "summary"
    /\ UNCHANGED <<concurrent_downloads, urls, permits, waiters,
                   active_downloads, pc, result, video, filenames, files,
                   delAttempts, progress, lockHolder, updates, exportResult,
                   failedTxt, ret>>
    /\ UNCHANGED <<steps, io>>

\* final_progress = progress.lock().await; the summary is printed
Summary ==
    /\ mainPc = "summary"
    /\ lockHolder = 0
    /\ lockHolder' = MainId
    /\ mainPc' = "export"
    /\ UNCHANGED <<concurrent_downloads, urls, permits, waiters,
                   active_downloads, pc, result, video, filenames, files,
                   delAttempts, progress, updates, exportResult, failedTxt,
                   ret>>
    /\ UNCHANGED <<steps, io>>

\* final_progress.export_failures()
Export ==
    /\ mainPc = "export"
    /\ \E o \in export_failures(failedTxt, progress.failed_urls) :
          /\ exportResult' = o[1]
          /\ failedTxt' = o[2]
    /\ mainPc' = "return"
    /\ UNCHANGED <<concurrent_downloads, urls, permits, waiters,
                   active_downloads, pc, result, video, filenames, files,
                   delAttempts, progress, lockHolder, updates, ret>>
    /\ UNCHANGED <<steps, io>>

\* variant of Return that propagates the export error with `?`
Return_PropagateExport ==
    /\ mainPc = "return"
    /\ ret' = IF exportResult = "Err" THEN "Err" ELSE "Ok"
    /\ lockHolder' = 0
    /\ mainPc' = "returned"
    /\ UNCHANGED <<concurrent_downloads, urls, permits, waiters,
                   active_downloads, pc, result, video, filenames, files,
                   delAttempts, progress, updates, exportResult, failedTxt>>
    /\ UNCHANGED <<steps, io>>

\* `if let Err(e) = ... { eprintln }`, then Ok(()); final_progress is dropped
Return ==
    /\ mainPc = "return"
    /\ ret' = "Ok"
    /\ lockHolder' = 0
    /\ mainPc' = "returned"
    /\ UNCHANGED <<concurrent_downloads, urls, permits, waiters,
                   active_downloads, pc, result, video, filenames, files,
                   delAttempts, progress, updates, exportResult, failedTxt>>
    /\ UNCHANGED <<steps, io>>

\* the directory in which every temporary file that exists can be deleted
DeletionSucceeds(i) ==
    files' = files \ {CleanupPath(filenames[i].audio),
                      CleanupPath(filenames[i].video)}

\* process_urls in a directory where an existing file can be deleted
Next ==
    \/ \E i \in Tasks : Spawn(i)
    \/ \E i \in Tasks : EnterDownload(i)
    \/ \E i \in Tasks : FetchInfo(i)
    \/ \E i \in Tasks : DownloadAudio(i)
    \/ \E i \in Tasks : DownloadVideo(i)
    \/ \E i \in Tasks : Combine(i)
    \/ \E i \in Tasks : CleanupTempFiles(i) /\ DeletionSucceeds(i)
    \/ \E i \in Tasks : Lock(i)
    \/ \E i \in Tasks : Report(i)
    \/ \E i \in Tasks : Update(i)
    \/ \E i \in Tasks : Finish(i)
    \/ Collect
    \/ Summary
    \/ Export
    \/ Return

Spec == Init /\ [][Next]_vars

\* ---- export_failures on a sink that may already exist ----------------------
MaxSections == 3

\* output/failed.txt as earlier runs can have left it
PriorSinks ==
    {NoFile,
     [exists |-> TRUE, lines |-> <<>>],
     [exists |-> TRUE,
      lines |-> ReportSection(<<<<"youtu.be/b", "combine error">>>>,
                              PriorTimestamp)]}

RECURSIVE CountSections(_)
CountSections(lines) ==
    IF lines = <<>> THEN 0
    ELSE (IF Head(lines) \in {ReportHeader(ts) :
                                  ts \in Timestamps \cup {PriorTimestamp}}
          THEN 1 ELSE 0)
         + CountSections(Tail(lines))

InitExport ==
    \E batch \in SeqsUpTo(MaxItems), sink \in PriorSinks :
        Start(1, batch, sink)

\* export_failures called once more on the same DownloadProgress
ExportAgain ==
    /\ mainPc = "return"
    /\ CountSections(failedTxt.lines) < MaxSections
    /\ \E o \in export_failures(failedTxt, progress.failed_urls) :
          /\ exportResult' = o[1]
          /\ failedTxt' = o[2]
    /\ UNCHANGED <<concurrent_downloads, urls, permits, waiters,
                   active_downloads, pc, result, video, filenames, files,
                   delAttempts, progress, lockHolder, updates, mainPc, ret,
                   steps, io>>

NextExport ==
    \/ Next
    \/ ExportAgain

SpecExport == InitExport /\ [][NextExport]_vars

\* ---- a batch larger than the window of buffer_unordered -------------------
\* One more item than the window, one permit per item.
WideBatch == [i \in 1..(BufferSize + 1) |-> "youtu.be/a"]

InitWide == Start(BufferSize + 1, WideBatch, NoFile)

\* tasks past fetch_video_infos that have not finished
PastInfo == {i \in Tasks : pc[i] \in {"audio", "video", "combine", "cleanup",
                                        "lock", "report", "update", "unlock"}}

\* The schedules and Fetcher outcomes explored for the wide batch: tasks
\* enter download_video in batch order, one task at a time runs the part
\* after fetch_video_infos, and only the first job can fail or lack a format.
WideSchedule ==
    /\ Cardinality(PastInfo) <= 1
    /\ \A i \in Tasks : \A j \in Tasks :
          (j < i /\ pc[j] \in {"admitted", "waiting"}) =>
              pc[i] \in {"idle", "admitted", "waiting"}
    /\ \A i \in Tasks : \A j \in Tasks :
          (j < i /\ pc[j] # "done") => i \notin PastInfo /\ pc[i] # "done"
    /\ \A i \in Tasks :
          i > 1 => /\ result[i] \in {"none", "ok"}
                   /\ video[i] = NoVideo \/ (video[i].audio /\ video[i].video)

NextWide ==
    \/ \E i \in Tasks : Spawn(i) /\ WideSchedule'
    \/ \E i \in Tasks : EnterDownload(i) /\ WideSchedule'
    \/ \E i \in Tasks : FetchInfo(i) /\ WideSchedule'
    \/ \E i \in Tasks : DownloadAudio(i) /\ WideSchedule'
    \/ \E i \in Tasks : DownloadVideo(i) /\ WideSchedule'
    \/ \E i \in Tasks : Combine(i) /\ WideSchedule'
    \/ \E i \in Tasks : CleanupTempFiles(i) /\ DeletionSucceeds(i) /\ WideSchedule'
    \/ \E i \in Tasks : Lock(i) /\ WideSchedule'
    \/ \E i \in Tasks : Report(i) /\ WideSchedule'
    \/ \E i \in Tasks : Update(i) /\ WideSchedule'
    \/ \E i \in Tasks : Finish(i) /\ WideSchedule'
    \/ Collect /\ WideSchedule'
    \/ Summary /\ WideSchedule'
    \/ Export /\ WideSchedule'
    \/ Return /\ WideSchedule'

SpecWide == InitWide /\ [][NextWide]_vars

\* ---- deletions that can fail ------------------------------------------------
FetcherErrors == {"video info error", "audio download error",
                  "video download error", "combine error"}

\* every call of the Fetcher succeeds
FetcherSucceeds == \A i \in Tasks : result[i] \notin FetcherErrors

\* process_urls with a Fetcher that succeeds, in a directory where any
\* deletion can fail
NextCleanup ==
    \/ \E i \in Tasks : Spawn(i) /\ FetcherSucceeds'
    \/ \E i \in Tasks : EnterDownload(i) /\ FetcherSucceeds'
    \/ \E i \in Tasks : FetchInfo(i) /\ FetcherSucceeds'
    \/ \E i \in Tasks : DownloadAudio(i) /\ FetcherSucceeds'
    \/ \E i \in Tasks : DownloadVideo(i) /\ FetcherSucceeds'
    \/ \E i \in Tasks : Combine(i) /\ FetcherSucceeds'
    \/ \E i \in Tasks : CleanupTempFiles(i) /\ FetcherSucceeds'
    \/ \E i \in Tasks : Lock(i) /\ FetcherSucceeds'
    \/ \E i \in Tasks : Report(i) /\ FetcherSucceeds'
    \/ \E i \in Tasks : Update(i) /\ FetcherSucceeds'
    \/ \E i \in Tasks : Finish(i) /\ FetcherSucceeds'
    \/ Collect /\ FetcherSucceeds'
    \/ Summary /\ FetcherSucceeds'
    \/ Export /\ FetcherSucceeds'
    \/ Return /\ FetcherSucceeds'

\* batches that name one video several times: their jobs use the same
\* temporary file names, so a job can find its file deleted by another
RepeatedUrlBatches == {[i \in 1..n |-> "youtu.be/a"] : n \in 0..MaxItems}

InitCleanup ==
    \E limit \in 1..MaxLimit, batch \in RepeatedUrlBatches :
        Start(limit, batch, NoFile)

SpecCleanup == InitCleanup /\ [][NextCleanup]_vars

\* ---- a Fetcher call that never returns ---------------------------------------
\* every call of the Fetcher that returns succeeds, and every video has both
\* formats
FetcherDelivers ==
    /\ FetcherSucceeds
    /\ \A i \in Tasks : video[i] = NoVideo \/ (video[i].audio /\ video[i].video)

\* tasks suspended in a Fetcher call that never returns
Hung == {i \in Tasks : pc[i] = "hung"}

\* the Fetcher call task i awaits never returns (there is no timeout): the
\* task stays suspended inside download_video with its guard and its permit
Hang(i) ==
    /\ pc[i] \in {"info", "audio", "video", "combine"}
    /\ Hung = {}
    /\ pc' = [pc EXCEPT ![i] = "hung"]
    /\ UNCHANGED <<concurrent_downloads, urls, permits, waiters,
                   active_downloads, result, video, filenames, files,
                   delAttempts, progress, lockHolder, updates, mainPc,
                   exportResult, failedTxt, ret, steps, io>>

\* the steps of the future of item i, as buffer_unordered polls it
TaskStep(i) ==
    /\ i \in Tasks
    /\ \/ Spawn(i)
       \/ EnterDownload(i)
       \/ FetchInfo(i)
       \/ DownloadAudio(i)
       \/ DownloadVideo(i)
       \/ Combine(i)
       \/ CleanupTempFiles(i) /\ DeletionSucceeds(i)
       \/ Lock(i)
       \/ Report(i)
       \/ Update(i)
       \/ Finish(i)

\* the steps of process_urls after the stream is exhausted
MainStep ==
    \/ Collect
    \/ Summary
    \/ Export
    \/ Return

\* batches of up to one item more than MaxItems, so that an item waits for a
\* permit while two jobs hold one
HangBatches == {[i \in 1..n |-> "youtu.be/a"] : n \in 0..(MaxItems + 1)}

InitHang ==
    \E limit \in 2..MaxLimit, batch \in HangBatches :
        Start(limit, batch, NoFile)

NextHang ==
    \/ \E i \in Tasks : Spawn(i) /\ FetcherDelivers'
    \/ \E i \in Tasks : EnterDownload(i) /\ FetcherDelivers'
    \/ \E i \in Tasks : FetchInfo(i) /\ FetcherDelivers'
    \/ \E i \in Tasks : DownloadAudio(i) /\ FetcherDelivers'
    \/ \E i \in Tasks : DownloadVideo(i) /\ FetcherDelivers'
    \/ \E i \in Tasks : Combine(i) /\ FetcherDelivers'
    \/ \E i \in Tasks : CleanupTempFiles(i) /\ DeletionSucceeds(i)
    \/ \E i \in Tasks : Lock(i)
    \/ \E i \in Tasks : Report(i)
    \/ \E i \in Tasks : Update(i)
    \/ \E i \in Tasks : Finish(i)
    \/ \E i \in Tasks : Hang(i)
    \/ Collect
    \/ Summary
    \/ Export
    \/ Return

\* the executor polls every future that can make a step, and process_urls
\* itself runs when its await resolves
SpecHang ==
    /\ InitHang
    /\ [][NextHang]_vars
    /\ \A i \in 1..(MaxItems + 1) : WF_vars(TaskStep(i) /\ FetcherDelivers')
    /\ WF_vars(MainStep)

\* ---- termination, for small batches and around the window -------------------
\* The Fetcher outcomes and, for the wide batch with at least as many permits
\* as the window holds, the schedules explored: only the first job can fail
\* or lack a format.
LiveEnv ==
    /\ \A i \in Tasks :
          i > 1 => /\ result[i] \in {"none", "ok"}
                   /\ video[i] = NoVideo \/ (video[i].audio /\ video[i].video)
    /\ (Len(urls) > BufferSize /\ concurrent_downloads >= BufferSize)
          => WideSchedule

\* small batches under every limit, and the wide batch with a limit below,
\* equal to and above the window
InitLive ==
    \/ \E limit \in 1..MaxLimit, batch \in HangBatches :
          Start(limit, batch, NoFile)
    \/ \E limit \in {1, BufferSize, BufferSize + 1} :
          Start(limit, WideBatch, NoFile)

NextLive ==
    \/ \E i \in Tasks : Spawn(i) /\ LiveEnv'
    \/ \E i \in Tasks : EnterDownload(i) /\ LiveEnv'
    \/ \E i \in Tasks : FetchInfo(i) /\ LiveEnv'
    \/ \E i \in Tasks : DownloadAudio(i) /\ LiveEnv'
    \/ \E i \in Tasks : DownloadVideo(i) /\ LiveEnv'
    \/ \E i \in Tasks : Combine(i) /\ LiveEnv'
    \/ \E i \in Tasks : CleanupTempFiles(i) /\ DeletionSucceeds(i) /\ LiveEnv'
    \/ \E i \in Tasks : Lock(i) /\ LiveEnv'
    \/ \E i \in Tasks : Report(i) /\ LiveEnv'
    \/ \E i \in Tasks : Update(i) /\ LiveEnv'
    \/ \E i \in Tasks : Finish(i) /\ LiveEnv'
    \/ Collect
    \/ Summary
    \/ Export
    \/ Return

\* every Fetcher call returns and the executor runs as long as a future or
\* process_urls itself can make a step
SpecLive ==
    /\ InitLive
    /\ [][NextLive]_vars
    /\ WF_vars(NextLive)

\* ---- process_urls called again on the same Downloader -----------------------
\* The Fetcher outcomes explored over several calls: every video has both
\* formats and only the metadata of the first item can fail.
AgainEnv ==
    \A i \in Tasks :
        /\ result[i] \in {"none", "ok", "video info error"}
        /\ i > 1 => result[i] # "video info error"
        /\ video[i] = NoVideo \/ (video[i].audio /\ video[i].video)

\* a later call of process_urls: the Downloader keeps its semaphore and its
\* counter, the directory keeps its files, and the call builds a new
\* DownloadProgress and a new stream of tasks
ProcessUrlsAgain ==
    /\ mainPc = "returned"
    /\ CountSections(failedTxt.lines) < MaxSections
    /\ \E batch \in RepeatedUrlBatches :
          /\ urls' = batch
          /\ pc' = [i \in 1..Len(batch) |-> "idle"]
          /\ result' = [i \in 1..Len(batch) |-> "none"]
          /\ video' = [i \in 1..Len(batch) |-> NoVideo]
          /\ filenames' = [i \in 1..Len(batch) |-> NoNames]
          /\ delAttempts' = [i \in 1..Len(batch) |-> [audio |-> 0, video |-> 0]]
          /\ updates' = [i \in 1..Len(batch) |-> 0]
          /\ steps' = [i \in 1..Len(batch) |-> <<>>]
          /\ io' = [i \in 1..Len(batch) |-> <<>>]
          /\ progress' = DownloadProgress_new(Len(batch))
    /\ lockHolder' = 0
    /\ mainPc' = "collect"
    /\ exportResult' = "none"
    /\ ret' = "none"
    /\ UNCHANGED <<concurrent_downloads, permits, waiters, active_downloads,
                   files, failedTxt>>

NextAgain ==
    \/ \E i \in Tasks : Spawn(i)
    \/ \E i \in Tasks : EnterDownload(i)
    \/ \E i \in Tasks : FetchInfo(i) /\ AgainEnv'
    \/ \E i \in Tasks : DownloadAudio(i) /\ AgainEnv'
    \/ \E i \in Tasks : DownloadVideo(i) /\ AgainEnv'
    \/ \E i \in Tasks : Combine(i) /\ AgainEnv'
    \/ \E i \in Tasks : CleanupTempFiles(i) /\ DeletionSucceeds(i)
    \/ \E i \in Tasks : Lock(i)
    \/ \E i \in Tasks : Report(i)
    \/ \E i \in Tasks : Update(i)
    \/ \E i \in Tasks : Finish(i)
    \/ Collect
    \/ Summary
    \/ Export
    \/ Return
    \/ ProcessUrlsAgain

SpecAgain == InitCleanup /\ [][NextAgain]_vars

TypeOK ==
    /\ permits \in 0..concurrent_downloads
    /\ active_downloads \in 0..Len(urls)
    /\ lockHolder \in (0..Len(urls)) \cup {MainId}

\* ---- helper sets for the properties ---------------------------------------
Failed(i) == result[i] \notin {"none", "ok"}

\* tasks between progress.lock() and the drop of progress_guard
InCriticalSection == {i \in Tasks : pc[i] \in {"report", "update", "unlock"}}

\* tasks whose call of update has returned
Updated == {i \in Tasks : pc[i] \in {"unlock", "done"}}

\* tasks whose download_video has returned
JobEnded == {i \in Tasks : pc[i] \in {"lock", "report", "update", "unlock", "done"}}

\* tasks inside download_video that hold their FileNames
Running == {i \in Tasks : pc[i] \in {"audio", "video", "combine", "cleanup"}}

NamesOf(i) == {filenames[i].audio, filenames[i].video, filenames[i].name}

AfterJoin == mainPc \in {"summary", "export", "return", "returned"}

\* C1: the number of jobs that hold an admission permit and have not finished
\* their task body never exceeds concurrent_downloads.
C1_AdmittedWithinLimit ==
    Cardinality(Admitted) <= concurrent_downloads

\* the limit is reached while another task is suspended in acquire()
C1_Witness ==
    /\ Cardinality(Admitted) = concurrent_downloads
    /\ waiters # <<>>

\* C2: once process_urls is past collect() (summary, export, return) every
\* outcome is recorded: completed = total_videos and errors <= completed.
C2_JoinBeforeSummary ==
    AfterJoin =>
        /\ progress.completed = progress.total_videos
        /\ progress.errors <= progress.completed
        /\ \A i \in Tasks : pc[i] = "done"

\* a batch of several items with successes and failures has returned
C2_Witness ==
    /\ mainPc = "returned"
    /\ progress.total_videos >= 2
    /\ progress.errors >= 1
    /\ progress.errors < progress.completed

\* C3: whatever the outcomes of the other items, every item of the batch is
\* started and its outcome recorded by the time process_urls returns; while a
\* failed job exists no other task has been dropped from the batch.
C3_FailureDoesNotSkipOthers ==
    /\ mainPc = "returned" =>
          \A i \in Tasks : result[i] # "none" /\ updates[i] = 1
    /\ (\E i \in Tasks : Failed(i)) =>
          \A j \in Tasks : pc[j] \in {"idle", "waiting"} => mainPc = "collect"

\* every job of a batch of several items failed and the batch returned
C3_Witness ==
    /\ mainPc = "returned"
    /\ Len(urls) >= 2
    /\ \A i \in Tasks : Failed(i)
    /\ \A i \in Tasks : updates[i] = 1

\* C4 (as claimed): every job that resolved its metadata and has ended has
\* attempted the deletion of both temporary files.
C4_CleanupAlwaysAttempted ==
    \A i \in JobEnded :
        result[i] # "video info error" =>
            delAttempts[i].audio >= 1 /\ delAttempts[i].video >= 1

\* C5: active_downloads is 0 when process_urls returns.
C5_ActiveZeroAtReturn ==
    mainPc = "returned" => active_downloads = 0

\* returned after a success, a metadata failure or a later failure
C5_Witness ==
    /\ mainPc = "returned"
    /\ active_downloads = 0
    /\ \E i \in Tasks : result[i] = "ok"
    /\ \E i \in Tasks : Failed(i)

\* C6: update is called at most once per item, exactly by the tasks that
\* passed it, completed counts these calls, and after the join every item of
\* the batch has exactly one.
C6_OneUpdatePerItem ==
    /\ \A i \in Tasks : updates[i] = IF i \in Updated THEN 1 ELSE 0
    /\ progress.completed = Cardinality({i \in Tasks : updates[i] >= 1})
    /\ \A k \in 1..Len(progress.failed_urls) :
          \E i \in Tasks : progress.failed_urls[k] = <<urls[i], result[i]>>
    /\ AfterJoin => \A i \in Tasks : updates[i] = 1

\* a batch of several items is through, one update each
C6_Witness ==
    /\ mainPc = "export"
    /\ Len(urls) >= 2
    /\ progress.completed = Len(urls)
    /\ \A i \in Tasks : updates[i] = 1

\* C7: completed <= total_videos and errors <= completed in every state, so
\* remaining_videos of print_progress is never negative.
C7_CountsBounded ==
    /\ progress.completed <= progress.total_videos
    /\ progress.errors <= progress.completed
    /\ RemainingVideos(progress) >= 0

\* every job recorded so far has failed and the batch is still running
C7_Witness ==
    /\ progress.completed >= 1
    /\ progress.errors = progress.completed
    /\ progress.completed < progress.total_videos

\* C8: at most one task is inside the aggregator's critical section, it owns
\* the lock, and the aggregator holds exactly the updates of the tasks that
\* went through it (a failure record without its counts exists only while
\* the recording task is still inside).
C8_UpdatesSerialized ==
    /\ Cardinality(InCriticalSection) <= 1
    /\ \A i \in InCriticalSection : lockHolder = i
    /\ progress.completed = Cardinality(Updated)
    /\ progress.errors = Cardinality({i \in Updated : Failed(i)})
    /\ Len(progress.failed_urls) =
          Cardinality({i \in Tasks : pc[i] \in {"update", "unlock", "done"} /\ Failed(i)})

\* a failed job is in the middle of its update while another finished job
\* waits for the lock
C8_Witness ==
    \E i, j \in Tasks :
        /\ i # j
        /\ pc[i] = "update"
        /\ Failed(i)
        /\ pc[j] = "lock"

\* C9: process_urls returns Ok for every combination of job outcomes and of
\* the export result, and the counts recorded before the export are the ones
\* it returns with.
C9_AlwaysReturnsOk ==
    /\ ret \in {"none", "Ok"}
    /\ mainPc = "returned" =>
          /\ ret = "Ok"
          /\ progress.completed = progress.total_videos
          /\ progress.errors = Cardinality({i \in Tasks : Failed(i)})

\* the export failed, and process_urls returned Ok
C9_Witness ==
    /\ mainPc = "returned"
    /\ exportResult = "Err"
    /\ ret = "Ok"
    /\ progress.errors >= 1

\* C10 (as claimed): two jobs that run at the same time share no file name.
C10_NoSharedFileNames ==
    \A i, j \in Running :
        i # j => NamesOf(i) \cap NamesOf(j) = {}

\* C11 (as claimed): with at least as many permits as items no task waits
\* to start: none is suspended in acquire(), and the next item of the batch
\* can always be launched at once.
C11_ImmediateAdmission ==
    concurrent_downloads >= Len(urls) =>
        /\ \A i \in Tasks : pc[i] # "waiting"
        /\ \A i \in Tasks :
              (mainPc = "collect" /\ pc[i] = "idle"
                 /\ \A j \in Tasks : j < i => pc[j] # "idle")
              => ENABLED Spawn(i)

\* C17 (as claimed): whenever fewer than concurrent_downloads jobs are
\* executing and an item has not started, an item can start.
C17_OnlySemaphoreLimits ==
    (/\ mainPc = "collect"
     /\ Cardinality(Admitted) < concurrent_downloads
     /\ \E i \in Tasks : pc[i] = "idle")
    => \E i \in Tasks : pc[i] = "idle" /\ ENABLED Spawn(i)

\* ---- helpers for the properties of the job and of the export -----------
\* tasks between DownloadGuard::new and the return of download_video
InDownload == {i \in Tasks : pc[i] \in {"info", "audio", "video", "combine", "cleanup"}}

\* tasks that hold a permit and have not returned from download_video
BeforeReport == {i \in Tasks : pc[i] = "admitted"} \cup InDownload

\* path of the final artifact of task i
FinalPath(i) ==
    OutputPath(MakeFileNames(i, [id |-> VideoIdOf(urls[i]), title |-> VideoTitle,
                                 audio |-> TRUE, video |-> TRUE]).name)

FinalArtifacts == {i \in Tasks : FinalPath(i) \in files}

IsPrefix(s1, s2) == Len(s1) <= Len(s2) /\ SubSeq(s2, 1, Len(s1)) = s1

StepOrder == <<"info", "audio", "video", "combine", "cleanup">>

\* C12: when process_urls has returned, failed_urls holds exactly one
\* (url, error) record per failed job and none for the others, its length is
\* errors, and the final artifacts are those of the completed - errors
\* successful jobs.
C12_FailureListAndArtifacts ==
    mainPc = "returned" =>
        /\ Len(progress.failed_urls) = progress.errors
        /\ \E f \in [1..Len(progress.failed_urls) -> Tasks] :
              /\ \A k \in DOMAIN f : progress.failed_urls[k] = <<urls[f[k]], result[f[k]]>>
              /\ \A k, l \in DOMAIN f : k # l => f[k] # f[l]
              /\ {f[k] : k \in DOMAIN f} = {i \in Tasks : Failed(i)}
        /\ FinalArtifacts = {i \in Tasks : result[i] = "ok"}
        /\ Cardinality(FinalArtifacts) = progress.completed - progress.errors

\* a batch with a metadata failure and a success has returned
C12_Witness ==
    /\ mainPc = "returned"
    /\ \E i \in Tasks : result[i] = "video info error"
    /\ Len(progress.failed_urls) >= 1
    /\ Cardinality(FinalArtifacts) >= 1

\* C13: for an empty batch no permit is taken, the counts stay 0, the sink
\* is not touched and process_urls returns Ok.
C13_EmptyBatch ==
    Len(urls) = 0 =>
        /\ permits = concurrent_downloads
        /\ waiters = <<>>
        /\ active_downloads = 0
        /\ progress = DownloadProgress_new(0)
        /\ failedTxt = NoFile
        /\ exportResult \in {"none", "Ok"}
        /\ mainPc \in {"return", "returned"} => exportResult = "Ok"
        /\ mainPc = "returned" => ret = "Ok"

\* the empty batch has returned
C13_Witness ==
    /\ Len(urls) = 0
    /\ mainPc = "returned"
    /\ exportResult = "Ok"

\* C14: no step shortens or rewrites output/failed.txt or removes it, and a
\* call of export_failures that returns Ok for a non-empty list leaves the
\* previous lines in place and adds exactly one section after them.
C14_ExportAppendOnly ==
    [][/\ IsPrefix(failedTxt.lines, failedTxt'.lines)
       /\ failedTxt.exists => failedTxt'.exists
       /\ (/\ mainPc \in {"export", "return"}
           /\ mainPc' = "return"
           /\ exportResult' = "Ok"
           /\ progress.failed_urls # <<>>)
          => \E ts \in Timestamps :
                failedTxt'.lines =
                    failedTxt.lines \o ReportSection(progress.failed_urls, ts)]_vars

\* two exports of the same list stand behind the section of an earlier run
C14_Witness ==
    /\ mainPc = "return"
    /\ progress.failed_urls # <<>>
    /\ \E prior \in PriorSinks : \E t1, t2 \in Timestamps :
          /\ prior.lines # <<>>
          /\ failedTxt.lines = prior.lines
                                  \o ReportSection(progress.failed_urls, t1)
                                  \o ReportSection(progress.failed_urls, t2)

\* C15: while the failure list is empty no step touches the sink and
\* export_failures returns Ok; the sink changes only after a job failed.
C15_EmptyListLeavesSink ==
    [][/\ progress.failed_urls = <<>> => failedTxt' = failedTxt
       /\ (progress.failed_urls = <<>> /\ mainPc \in {"export", "return"})
             => exportResult' \in {exportResult, "Ok"}
       /\ failedTxt' # failedTxt => progress.errors >= 1]_vars

\* a batch without failure has returned: the sink of an earlier run is as
\* it was
C15_Witness ==
    /\ mainPc = "returned"
    /\ progress.completed >= 1
    /\ progress.errors = 0
    /\ exportResult = "Ok"
    /\ failedTxt \in PriorSinks
    /\ failedTxt.lines # <<>>

\* C16 (as claimed): the permit is released before the outcome is reported,
\* so the free permits and those of the tasks that have not reached the
\* report add up to concurrent_downloads.
C16_SlotReleasedBeforeReport ==
    permits + Cardinality(BeforeReport) = concurrent_downloads

\* C16 (amended): active_downloads is decremented first, the outcome is
\* reported next and the permit is released last: a task that waits for or
\* holds the aggregator lock still holds its permit and is no longer
\* counted in active_downloads.
C16_ReportBeforeRelease ==
    /\ permits + Cardinality(BeforeReport) + Cardinality(JobEnded \ {i \in Tasks : pc[i] = "done"})
          = concurrent_downloads
    /\ active_downloads = Cardinality(InDownload)
    /\ waiters # <<>> => permits = 0

\* a task reports under the lock while another one waits for its permit
C16_Witness ==
    \E i, j \in Tasks :
        /\ pc[i] \in {"lock", "report", "update", "unlock"}
        /\ pc[j] = "waiting"
        /\ active_downloads = 0

\* C18: the steps of a job are reached in the order info, audio, video,
\* combine, cleanup, and a job that failed at a step reached no later step
\* and left no final artifact.
C18_StepsInOrder ==
    \A i \in Tasks :
        /\ IsPrefix(steps[i], StepOrder)
        /\ result[i] = "video info error" => steps[i] = SubSeq(StepOrder, 1, 1)
        /\ result[i] = "audio download error" => steps[i] = SubSeq(StepOrder, 1, 2)
        /\ result[i] = "video download error" => steps[i] = SubSeq(StepOrder, 1, 3)
        /\ result[i] = "combine error" => steps[i] = SubSeq(StepOrder, 1, 4)
        /\ result[i] = "ok" => steps[i] = StepOrder
        /\ i \in JobEnded => result[i] # "none"
        /\ Failed(i) => FinalPath(i) \notin files

\* a job whose audio fetch failed has ended without reaching a later step
C18_Witness ==
    \E i \in Tasks :
        /\ pc[i] = "done"
        /\ result[i] = "audio download error"
        /\ steps[i] = <<"info", "audio">>

\* C19 (as claimed): a task prints its lines only in states in which it
\* does not hold the aggregator lock.
C19_NoIoUnderLock ==
    [][\A i \in Tasks : io'[i] # io[i] => lockHolder # i]_vars

\* C20: active_downloads is the number of jobs inside download_video; it
\* is never negative and never above concurrent_downloads.
C20_ActiveCountExact ==
    /\ active_downloads = Cardinality(InDownload)
    /\ active_downloads >= 0
    /\ active_downloads <= concurrent_downloads

\* one job has left download_video with an error while another is inside
C20_Witness ==
    \E i, j \in Tasks :
        /\ i \in JobEnded
        /\ Failed(i)
        /\ j \in InDownload
        /\ active_downloads = 1

\* C21: a failed deletion is neither retried nor counted: each temporary
\* file's deletion is attempted at most once per job, a job that reached
\* cleanup_temp_files after its four steps ends with Ok whatever the deletions
\* returned, and it is counted as a success.
C21_CleanupFailureIgnored ==
    /\ \A i \in Tasks :
          /\ delAttempts[i].audio <= 1
          /\ delAttempts[i].video <= 1
          /\ (i \in JobEnded /\ steps[i] = StepOrder) => result[i] = "ok"
    /\ progress.errors = Cardinality({i \in Updated : result[i] # "ok"})
    /\ Len(progress.failed_urls) = Cardinality({i \in Tasks :
                                       pc[i] \in {"update", "unlock", "done"}
                                       /\ result[i] # "ok"})

\* the batch has returned without error although the deletion of an existing
\* temporary file failed and the file is still there
C21_Witness ==
    /\ mainPc = "returned"
    /\ progress.errors = 0
    /\ \E i \in Tasks :
          /\ result[i] = "ok"
          /\ pc[i] = "done"
          /\ delAttempts[i] = [audio |-> 1, video |-> 1]
          /\ OutputPath(MakeFileNames(i, [id |-> VideoIdOf(urls[i]),
                                          title |-> VideoTitle, audio |-> TRUE,
                                          video |-> TRUE]).audio) \in files

\* C22: a job whose metadata has no audio format passes the audio fetch
\* without an error and without writing a file and goes on to the video
\* fetch; one without a video format goes on in the same way to the combine
\* step; and a job that got past the combine step ends with Ok.
C22_MissingFormatSkipped ==
    [][\A i \in Tasks :
          /\ (pc[i] = "audio" /\ ~video[i].audio /\ pc'[i] # "audio")
                => /\ pc'[i] = "video"
                   /\ files' = files
                   /\ result'[i] = "none"
          /\ (pc[i] = "video" /\ ~video[i].video /\ pc'[i] # "video")
                => /\ pc'[i] = "combine"
                   /\ files' = files
                   /\ result'[i] = "none"
          /\ (pc[i] = "cleanup" /\ pc'[i] # "cleanup") => result'[i] = "ok"]_vars

\* the only job of a batch has no audio format: it fetched the video alone,
\* its combine step wrote the final artifact, and no step has failed
C22_Witness ==
    /\ Len(urls) = 1
    /\ pc[1] = "cleanup"
    /\ ~video[1].audio
    /\ video[1].video
    /\ steps[1] = SubSeq(StepOrder, 1, 4)
    /\ result[1] = "none"
    /\ files = {OutputPath(filenames[1].video), FinalPath(1)}

\* C23: a hung job stays hung and keeps its permit, process_urls stays in
\* collect(), and with a limit of at least 2 every other item is eventually
\* started and its outcome recorded.
C23_HungJobCostsOneSlot ==
    /\ [](\A h \in Hung : /\ h \in Admitted
                           /\ permits < concurrent_downloads
                           /\ mainPc = "collect")
    /\ [][\A h \in Hung : pc'[h] = "hung"]_vars
    /\ (Hung # {}) ~> (\A j \in Tasks \ Hung : pc[j] = "done" /\ updates[j] = 1)

\* one job hangs while it holds one of two permits; the other items, more
\* than the remaining permit admits at once, have all been recorded
C23_Witness ==
    /\ Len(urls) >= 3
    /\ concurrent_downloads = 2
    /\ Cardinality(Hung) = 1
    /\ \A j \in Tasks \ Hung : pc[j] = "done" /\ updates[j] = 1
    /\ progress.completed = Len(urls) - 1
    /\ permits = concurrent_downloads - 1
    /\ mainPc = "collect"

\* tasks that have not finished their body
Unfinished == {i \in Tasks : pc[i] # "done"}

\* task i cannot make a step: it waits for a permit, for the Mutex, or for a
\* place in the window
Stuck(i) ==
    \/ pc[i] = "waiting"
    \/ pc[i] = "lock" /\ lockHolder # 0
    \/ pc[i] = "idle" /\ ~ENABLED Spawn(i)

\* C24: process_urls returns in every run in which the Fetcher calls return,
\* and in no state do all unfinished tasks wait for a permit, the Mutex or the
\* window, nor does process_urls wait for a Mutex that a task still holds.
C24_Terminates ==
    /\ <>(mainPc = "returned")
    /\ [](Unfinished # {} => \E i \in Unfinished : ~Stuck(i))
    /\ [](mainPc = "summary" => lockHolder = 0)

\* a batch larger than the window has returned under a limit below the
\* window, every item recorded
C24_Witness ==
    /\ Len(urls) > BufferSize
    /\ concurrent_downloads < BufferSize
    /\ mainPc = "returned"
    /\ progress.completed = Len(urls)
    /\ permits = concurrent_downloads

\* C25: the free permits and the tasks that hold one add up to
\* concurrent_downloads; a task holds a permit or waits for one, never both,
\* and waits at most once; all permits are free when process_urls has
\* returned and when a call, the first or a later one, starts.
C25_PermitsConserved ==
    /\ permits >= 0
    /\ permits + Cardinality(Admitted) = concurrent_downloads
    /\ {waiters[k] : k \in DOMAIN waiters} = {i \in Tasks : pc[i] = "waiting"}
    /\ \A k, l \in DOMAIN waiters : k # l => waiters[k] # waiters[l]
    /\ mainPc = "returned" => permits = concurrent_downloads
    /\ (mainPc = "collect" /\ \A i \in Tasks : pc[i] = "idle")
          => permits = concurrent_downloads /\ waiters = <<>>

\* a later call starts: the directory holds the artifact of an earlier call
\* and every permit is free
C25_Witness ==
    /\ mainPc = "collect"
    /\ urls # <<>>
    /\ \A i \in Tasks : pc[i] = "idle"
    /\ files # {}
    /\ permits = concurrent_downloads

====
